---- MODULE Spec2Model ----
(***************************************************************************)
(* prefect.runtime.task_run: dynamic attributes of the current task run.   *)
(*                                                                         *)
(* The module exposes the attributes id, tags, name, parameters and        *)
(* task_name through a module-level __getattr__.  Each access looks the    *)
(* name up in FIELDS, calls the resolver against the ambient               *)
(* TaskRunContext (which may be absent), and lets an environment variable  *)
(* PREFECT__RUNTIME__TASK_RUN__<NAME> override the value, cast to the      *)
(* runtime type of the real value.                                         *)
(*                                                                         *)
(* Python strings are modelled as sequences of one-character strings, so   *)
(* that upper(), string comparison, sorted(), int() and float() are        *)
(* computed character by character.                                        *)
(***************************************************************************)
EXTENDS Integers, Sequences, FiniteSets, TLC

VARIABLES
    ctx,      \* what TaskRunContext.get() returns: None or a TaskRunContext
    environ,  \* os.environ: a function from the defined keys to their strings
    last,     \* the access that has just returned, NoCall once ctx or environ changed
    earlier   \* history: one earlier access kept with the ctx and environ it ran under

vars == <<ctx, environ, last, earlier>>

----------------------------------------------------------------------------
(* Characters and strings *)

LowerCase ==
    << "a", "b", "c", "d", "e", "f", "g", "h", "i", "j", "k", "l", "m",
       "n", "o", "p", "q", "r", "s", "t", "u", "v", "w", "x", "y", "z" >>

UpperCase ==
    << "A", "B", "C", "D", "E", "F", "G", "H", "I", "J", "K", "L", "M",
       "N", "O", "P", "Q", "R", "S", "T", "U", "V", "W", "X", "Y", "Z" >>

Digits == << "0", "1", "2", "3", "4", "5", "6", "7", "8", "9" >>

InSeq(seq, c) == \E i \in 1..Len(seq) : seq[i] = c

IndexOf(seq, c) == CHOOSE i \in 1..Len(seq) : seq[i] = c

Range(seq) == {seq[i] : i \in 1..Len(seq)}

\* The characters of the strings modelled.
Chars == Range(Digits) \cup Range(UpperCase) \cup Range(LowerCase) \cup {" ", "+", "-", ".", "_"}

\* The code point of each character (ASCII).
CodePoint ==
    [c \in Chars |->
        IF InSeq(Digits, c) THEN 47 + IndexOf(Digits, c)
        ELSE IF InSeq(UpperCase, c) THEN 64 + IndexOf(UpperCase, c)
        ELSE IF InSeq(LowerCase, c) THEN 96 + IndexOf(LowerCase, c)
        ELSE CASE c = " " -> 32
               [] c = "+" -> 43
               [] c = "-" -> 45
               [] c = "." -> 46
               [] c = "_" -> 95]

ord(c) == CodePoint[c]

\* The upper-case form of each character: a lower-case letter has one, every
\* other character is its own.
UpperOf ==
    [c \in Chars |->
        IF InSeq(LowerCase, c) THEN UpperCase[IndexOf(LowerCase, c)] ELSE c]

\* str.upper()
upper(s) == [i \in 1..Len(s) |-> UpperOf[s[i]]]

IsDigit(c) == c \in Range(Digits)

\* The value of each digit.
DigitOf == [c \in Range(Digits) |-> IndexOf(Digits, c) - 1]

\* a < b on Python strings: lexicographic on code points, a proper prefix is smaller.
RECURSIVE StrLess(_, _)
StrLess(a, b) ==
    IF b = << >> THEN FALSE
    ELSE IF a = << >> THEN TRUE
    ELSE IF ord(Head(a)) /= ord(Head(b)) THEN ord(Head(a)) < ord(Head(b))
    ELSE StrLess(Tail(a), Tail(b))

\* Insert x into the ascending list xs, after the elements that are not greater.
RECURSIVE Insert(_, _)
Insert(x, xs) ==
    IF xs = << >> THEN << x >>
    ELSE IF StrLess(x, Head(xs)) THEN << x >> \o xs
    ELSE << Head(xs) >> \o Insert(x, Tail(xs))

RECURSIVE InsertAll(_, _)
InsertAll(xs, acc) ==
    IF xs = << >> THEN acc ELSE InsertAll(Tail(xs), Insert(Head(xs), acc))

\* The list as it is, unsorted.
sorted_unsorted(xs) == xs

\* sorted(xs) of a list of strings: a new list in ascending order (stable).
sorted(xs) == InsertAll(xs, << >>)

----------------------------------------------------------------------------
(* Python values: a runtime type and a payload *)

None == [type |-> "NoneType", v |-> << >>]
PyStr(s) == [type |-> "str", v |-> s]
PyBool(b) == [type |-> "bool", v |-> b]
PyInt(n) == [type |-> "int", v |-> n]
\* A float is num * 10^exp with num not divisible by 10 (0 is <<0, 0>>).
PyFloat(num, exp) == [type |-> "float", v |-> << num, exp >>]
PyDateTime(y, m, d) == [type |-> "DateTime", v |-> << y, m, d >>]
PyList(xs) == [type |-> "list", v |-> xs]
PyDict(items) == [type |-> "dict", v |-> items]
PyUUID(hex) == [type |-> "UUID", v |-> hex]

\* isinstance(value, cls): bool is a subclass of int.
isinstance(value, cls) ==
    \/ value.type = cls
    \/ cls = "int" /\ value.type = "bool"

\* str(value) for the identifiers a task run carries: a UUID gives its text,
\* a str is returned as it is.
str(value) ==
    CASE value.type = "UUID" -> PyStr(value.v)
      [] value.type = "str" -> value

\* bool(s) of a string: true exactly when the string is not empty.
bool(s) == PyBool(Len(s) > 0)

\* What a call hands back: a returned value or a raised exception.
Return(value) == [kind |-> "return", exc |-> "", value |-> value]
Raise(exc, arg) == [kind |-> "raise", exc |-> exc, value |-> PyStr(arg)]

----------------------------------------------------------------------------
(* Parsing an override string: int(), float(), dateparser.parse() *)

RECURSIVE lstrip(_)
lstrip(s) == IF s /= << >> /\ Head(s) = " " THEN lstrip(Tail(s)) ELSE s

RECURSIVE rstrip(_)
rstrip(s) ==
    IF s /= << >> /\ s[Len(s)] = " " THEN rstrip(SubSeq(s, 1, Len(s) - 1)) ELSE s

strip(s) == rstrip(lstrip(s))

Signed(s) == s /= << >> /\ Head(s) \in {"+", "-"}

Unsigned(s) == IF Signed(s) THEN Tail(s) ELSE s

Sign(s) == IF s /= << >> /\ Head(s) = "-" THEN -1 ELSE 1

\* A digit string of a numeric literal: digits, single underscores between them.
IsDigits(s) ==
    /\ Len(s) > 0
    /\ IsDigit(s[1])
    /\ IsDigit(s[Len(s)])
    /\ \A i \in 1..Len(s) : IsDigit(s[i]) \/ s[i] = "_"
    /\ \A i \in 1..(Len(s) - 1) : ~(s[i] = "_" /\ s[i + 1] = "_")

RECURSIVE DigitsValue(_, _)
DigitsValue(s, acc) ==
    IF s = << >> THEN acc
    ELSE IF Head(s) = "_" THEN DigitsValue(Tail(s), acc)
    ELSE DigitsValue(Tail(s), 10 * acc + DigitOf[Head(s)])

DigitCount(s) == Cardinality({i \in 1..Len(s) : IsDigit(s[i])})

\* int(s): surrounding blanks and a sign are accepted, anything else but a
\* base-10 digit string raises ValueError.
int(s) ==
    LET t == strip(s)
        u == Unsigned(t)
    IN  IF IsDigits(u) THEN Return(PyInt(Sign(t) * DigitsValue(u, 0)))
        ELSE Raise("ValueError", s)

RECURSIVE Normal(_, _)
Normal(num, exp) ==
    IF num = 0 THEN PyFloat(0, 0)
    ELSE IF num % 10 = 0 THEN Normal(num \div 10, exp + 1)
    ELSE PyFloat(num, exp)

\* float(s) on decimal literals: blanks, a sign, digits with at most one point
\* and a digit on at least one side of it; anything else raises ValueError.
\* (Exponent, inf and nan literals are outside the override strings modelled.)
float(s) ==
    LET t == strip(s)
        u == Unsigned(t)
        dots == {i \in 1..Len(u) : u[i] = "."}
        p == IF dots = {} THEN Len(u) + 1 ELSE CHOOSE i \in dots : TRUE
        whole == SubSeq(u, 1, p - 1)
        frac == SubSeq(u, p + 1, Len(u))
        ok == /\ Cardinality(dots) <= 1
              /\ whole = << >> \/ IsDigits(whole)
              /\ frac = << >> \/ IsDigits(frac)
              /\ whole /= << >> \/ frac /= << >>
    IN  IF ok
        THEN Return(Normal(Sign(t) * DigitsValue(whole \o frac, 0), 0 - DigitCount(frac)))
        ELSE Raise("ValueError", s)

\* dateparser.parse(text): the date a text denotes, None when it denotes none.
\* Modelled on ISO calendar dates, YYYY-MM-DD.
dateparser_parse(text) ==
    LET shaped == /\ Len(text) = 10
                  /\ text[5] = "-" /\ text[8] = "-"
                  /\ \A i \in {1, 2, 3, 4, 6, 7, 9, 10} : IsDigit(text[i])
        y == DigitsValue(SubSeq(text, 1, 4), 0)
        m == DigitsValue(SubSeq(text, 6, 7), 0)
        d == DigitsValue(SubSeq(text, 9, 10), 0)
    IN  IF shaped /\ m \in 1..12 /\ d \in 1..31 THEN PyDateTime(y, m, d) ELSE None

\* pendulum.instance(dt): accepts a datetime only.
pendulum_instance(dt, text) ==
    IF dt.type = "DateTime" THEN Return(dt) ELSE Raise("ValueError", text)

----------------------------------------------------------------------------
(* String literals *)

\* "id", "tags", "name", "parameters", "task_name": the attribute names.
S_id == << "i", "d" >>
S_tags == << "t", "a", "g", "s" >>
S_name == << "n", "a", "m", "e" >>
S_parameters == << "p", "a", "r", "a", "m", "e", "t", "e", "r", "s" >>
S_task_name == << "t", "a", "s", "k", "_", "n", "a", "m", "e" >>

\* Names that FIELDS does not hold.
S_not_a_real_attr == << "n", "o", "t", "_", "a", "_", "r", "e", "a", "l", "_", "a", "t", "t", "r" >>
S_NAME == << "N", "A", "M", "E" >>
S_Tags == << "T", "a", "g", "s" >>

\* Override strings.
S_empty == <<  >>
S_x == << "x" >>
S_my_task == << "m", "y", "-", "t", "a", "s", "k" >>
S_42 == << "4", "2" >>
S_false == << "f", "a", "l", "s", "e" >>
S_2_5 == << "2", ".", "5" >>
S_date == << "2", "0", "2", "0", "-", "0", "1", "-", "0", "2" >>

\* Values held by task run contexts.
S_my_run == << "m", "y", "-", "r", "u", "n" >>
S_double == << "d", "o", "u", "b", "l", "e" >>
S_run_1 == << "r", "u", "n", "-", "1" >>
S_uuid == << "7", "f", "3", "a", "-", "0", "1" >>
S_a == << "a" >>
S_b == << "b" >>

\* The prefix of the environment variables: "PREFECT__RUNTIME__TASK_RUN__".
PREFIX ==
    << "P", "R", "E", "F", "E", "C", "T", "_", "_", "R", "U", "N", "T", "I", "M", "E", "_", "_", "T", "A", "S", "K", "_", "R", "U", "N", "_", "_" >>

----------------------------------------------------------------------------
(* Bounds and inputs *)

\* At most this many environment variables of the prefix are set at a time.
MaxOverrides == 1

\* The names accessed: the five attributes, a name of no attribute, and two
\* names that differ from an attribute's only in letter case.
Names ==
    { S_id, S_tags, S_name, S_parameters, S_task_name,
      S_not_a_real_attr, S_NAME, S_Tags }

\* The strings an environment variable is set to.
OverrideStrings == { S_empty, S_x, S_my_task, S_42, S_2_5, S_false, S_date }

TaskRunContext(id, name, tags, parameters, task_name) ==
    [type |-> "TaskRunContext",
     v |-> [task_run |-> [id |-> id, name |-> name, tags |-> tags],
            parameters |-> parameters,
            task |-> [name |-> task_name]]]

\* A task run as the engine creates it.
CtxRun ==
    TaskRunContext(PyUUID(S_uuid), PyStr(S_my_run), PyList(<< S_b, S_a >>),
                   PyDict(<< << S_x, PyInt(1) >> >>), PyStr(S_double))

\* Contexts whose fields hold values of other runtime types: the fields are
\* read unvalidated, and __getattr__ inspects the runtime type of what it gets.
CtxBoolInt ==
    TaskRunContext(PyStr(S_run_1), PyBool(TRUE), PyList(<< >>), PyDict(<< >>), PyInt(7))

CtxFloatDate ==
    TaskRunContext(PyStr(S_run_1), PyFloat(25, -1), PyList(<< S_a >>), PyDict(<< >>),
                   PyDateTime(2023, 6, 1))

Contexts == { CtxRun, CtxBoolInt, CtxFloatDate }

----------------------------------------------------------------------------
(* The module *)

\* __all__ = ["id", "tags", "name", "parameters", "task_name"]
all == << S_id, S_tags, S_name, S_parameters, S_task_name >>

\* FIELDS: the resolver of each attribute name.
FIELDS ==
    [n \in {S_id, S_tags, S_name, S_parameters, S_task_name} |->
        CASE n = S_id -> "get_id"
          [] n = S_tags -> "get_tags"
          [] n = S_name -> "get_name"
          [] n = S_parameters -> "get_parameters"
          [] n = S_task_name -> "get_task_name"]

IsNone(value) == value.type = "NoneType"

\* TaskRunContext.get(): the context of the task run in progress, or None.
TaskRunContext_get == ctx

\* get_id stringifying whatever it finds, the missing context included.
get_id_str_none ==
    LET task_run_ctx == TaskRunContext_get
    IN  IF ~IsNone(task_run_ctx) THEN str(task_run_ctx.v.task_run.id)
        ELSE PyStr(<< "N", "o", "n", "e" >>)

\* Falls off the end when there is no context: the call returns None.
get_id ==
    LET task_run_ctx == TaskRunContext_get
    IN  IF ~IsNone(task_run_ctx) THEN str(task_run_ctx.v.task_run.id) ELSE None

\* get_tags with the default of get_name.
get_tags_none ==
    LET task_run_ctx == TaskRunContext_get
    IN  IF IsNone(task_run_ctx) THEN None ELSE task_run_ctx.v.task_run.tags

get_tags ==
    LET task_run_ctx == TaskRunContext_get
    IN  IF IsNone(task_run_ctx) THEN PyList(<< >>) ELSE task_run_ctx.v.task_run.tags

\* get_name reading the context captured at an earlier access.
get_name_cached ==
    LET task_run_ctx == IF earlier.set THEN earlier.ctx ELSE TaskRunContext_get
    IN  IF IsNone(task_run_ctx) THEN None ELSE task_run_ctx.v.task_run.name

get_name ==
    LET task_run_ctx == TaskRunContext_get
    IN  IF IsNone(task_run_ctx) THEN None ELSE task_run_ctx.v.task_run.name

\* get_task_name reading the name of the task run, not of the task.
get_task_name_of_run ==
    LET task_run_ctx == TaskRunContext_get
    IN  IF IsNone(task_run_ctx) THEN None ELSE task_run_ctx.v.task_run.name

get_task_name ==
    LET task_run_ctx == TaskRunContext_get
    IN  IF IsNone(task_run_ctx) THEN None ELSE task_run_ctx.v.task.name

get_parameters ==
    LET task_run_ctx == TaskRunContext_get
    IN  IF ~IsNone(task_run_ctx) THEN task_run_ctx.v.parameters ELSE PyDict(<< >>)

\* func(): the call of a resolver held by FIELDS.
Call(func) ==
    CASE func = "get_id" -> get_id
      [] func = "get_tags" -> get_tags
      [] func = "get_name" -> get_name
      [] func = "get_parameters" -> get_parameters
      [] func = "get_task_name" -> get_task_name

\* FIELDS looked up without regard to letter case.
FIELDS_get_nocase(name) ==
    IF \E r \in DOMAIN FIELDS : upper(r) = upper(name)
    THEN FIELDS[CHOOSE r \in DOMAIN FIELDS : upper(r) = upper(name)]
    ELSE "None"

\* FIELDS.get(name): the resolver, "None" when FIELDS has no such key.
FIELDS_get(name) == IF name \in DOMAIN FIELDS THEN FIELDS[name] ELSE "None"

\* env_key = f"PREFECT__RUNTIME__TASK_RUN__{name.upper()}"
env_key(name) == PREFIX \o upper(name)

\* The cast with int tested before bool: a bool is an int too.
cast_int_first(real_value, mocked_value) ==
    IF isinstance(real_value, "int") THEN int(mocked_value)
    ELSE IF isinstance(real_value, "bool") THEN Return(bool(mocked_value))
    ELSE IF isinstance(real_value, "float") THEN float(mocked_value)
    ELSE IF isinstance(real_value, "DateTime")
        THEN pendulum_instance(dateparser_parse(mocked_value), mocked_value)
    ELSE Return(PyStr(mocked_value))

\* The cast that keeps the real value where it knows no conversion.
cast_keep_real(real_value, mocked_value) ==
    IF isinstance(real_value, "bool") THEN Return(bool(mocked_value))
    ELSE IF isinstance(real_value, "int") THEN int(mocked_value)
    ELSE IF isinstance(real_value, "float") THEN float(mocked_value)
    ELSE IF isinstance(real_value, "DateTime")
        THEN pendulum_instance(dateparser_parse(mocked_value), mocked_value)
    ELSE Return(real_value)

\* The cast of mocked_value to the type of real_value.
cast(real_value, mocked_value) ==
    IF isinstance(real_value, "bool") THEN Return(bool(mocked_value))
    ELSE IF isinstance(real_value, "int") THEN int(mocked_value)
    ELSE IF isinstance(real_value, "float") THEN float(mocked_value)
    ELSE IF isinstance(real_value, "DateTime")
        THEN pendulum_instance(dateparser_parse(mocked_value), mocked_value)
    ELSE Return(PyStr(mocked_value))

\* The branch of __getattr__ for a name FIELDS holds.
known(name, func) ==
    LET real_value == Call(func)
    IN  IF env_key(name) \in DOMAIN environ
        THEN cast(real_value, environ[env_key(name)])
        ELSE Return(real_value)

\* The unknown name answered with None where it should raise.
unknown_none(name) ==
    IF env_key(name) \in DOMAIN environ
    THEN Return(PyStr(environ[env_key(name)]))
    ELSE Return(None)

\* The unknown name with the override tested for truth, not for presence.
unknown_truthy(name) ==
    IF env_key(name) \in DOMAIN environ /\ environ[env_key(name)] /= << >>
    THEN Return(PyStr(environ[env_key(name)]))
    ELSE Raise("AttributeError", name)

\* The branch of __getattr__ for a name FIELDS does not hold.
unknown(name) ==
    IF env_key(name) \in DOMAIN environ
    THEN Return(PyStr(environ[env_key(name)]))
    ELSE Raise("AttributeError", name)

__getattr__(name) ==
    LET func == FIELDS_get(name)
    IN  IF func /= "None" THEN known(name, func) ELSE unknown(name)

__dir__ == PyList(sorted(all))

----------------------------------------------------------------------------
(* The state machine *)

NoCall == [op |-> "", name |-> << >>, result |-> Return(None)]

NoEarlier ==
    [set |-> FALSE, disturbed |-> FALSE, name |-> << >>, ctx |-> None,
     environ |-> << >>, result |-> Return(None)]

Disturb == IF earlier.set THEN [earlier EXCEPT !.disturbed = TRUE] ELSE earlier

Init ==
    /\ ctx = None
    /\ environ = << >>
    /\ last = NoCall
    /\ earlier = NoEarlier

\* A task run starts: its context becomes the ambient one.
Enter(c) ==
    /\ ctx /= c
    /\ ctx' = c
    /\ last' = NoCall
    /\ earlier' = Disturb
    /\ UNCHANGED environ

\* The task run ends: no context is active.
Exit ==
    /\ ~IsNone(ctx)
    /\ ctx' = None
    /\ last' = NoCall
    /\ earlier' = Disturb
    /\ UNCHANGED environ

\* os.environ[key] = s
Setenv(key, s) ==
    /\ Cardinality(DOMAIN environ \cup {key}) <= MaxOverrides
    /\ ~(key \in DOMAIN environ /\ environ[key] = s)
    /\ environ' = [k \in DOMAIN environ \cup {key} |-> IF k = key THEN s ELSE environ[k]]
    /\ last' = NoCall
    /\ earlier' = Disturb
    /\ UNCHANGED ctx

\* del os.environ[key]
Delenv(key) ==
    /\ key \in DOMAIN environ
    /\ environ' = [k \in DOMAIN environ \ {key} |-> environ[k]]
    /\ last' = NoCall
    /\ earlier' = Disturb
    /\ UNCHANGED ctx

\* getattr(prefect.runtime.task_run, name)
Getattr(name) ==
    /\ last' = [op |-> "__getattr__", name |-> name, result |-> __getattr__(name)]
    /\ UNCHANGED << ctx, environ, earlier >>

\* dir(prefect.runtime.task_run)
Dir ==
    /\ last' = [op |-> "__dir__", name |-> << >>, result |-> Return(__dir__)]
    /\ UNCHANGED << ctx, environ, earlier >>

\* The access that has just returned is kept, with the context and the
\* environment it ran under, for comparison with later accesses.
Keep ==
    /\ last.op = "__getattr__"
    /\ earlier' = [set |-> TRUE, disturbed |-> FALSE, name |-> last.name,
                   ctx |-> ctx, environ |-> environ, result |-> last.result]
    /\ UNCHANGED << ctx, environ, last >>

\* The environment variables of the names accessed.
Keys == {env_key(n) : n \in Names}

Next ==
    \/ \E c \in Contexts : Enter(c)
    \/ Exit
    \/ \E k \in Keys, s \in OverrideStrings : Setenv(k, s)
    \/ \E k \in Keys : Delenv(k)
    \/ \E n \in Names : Getattr(n)
    \/ Dir

Spec == Init /\ [][Next]_vars

\* The same operations on fewer inputs, with accesses kept for comparison.
HistoryContexts == { CtxRun, CtxBoolInt }
HistoryNames == { S_name, S_task_name, S_not_a_real_attr, S_NAME }
HistoryStrings == { S_empty, S_42 }
HistoryKeys == {env_key(n) : n \in HistoryNames}

NextHistory ==
    \/ \E c \in HistoryContexts : Enter(c)
    \/ Exit
    \/ \E k \in HistoryKeys, s \in HistoryStrings : Setenv(k, s)
    \/ \E k \in HistoryKeys : Delenv(k)
    \/ \E n \in HistoryNames : Getattr(n)
    \/ Keep

SpecHistory == Init /\ [][NextHistory]_vars

----------------------------------------------------------------------------
(* Properties *)

AttributeNames == { S_id, S_name, S_tags, S_parameters, S_task_name }

\* name has just been accessed, under the ctx and environ of this state.
Accessed(name) == last.op = "__getattr__" /\ last.name = name

OverrideKey(name) == PREFIX \o upper(name)

Overridden(name) == OverrideKey(name) \in DOMAIN environ

Override(name) == environ[OverrideKey(name)]

\* The value an attribute has when no task run is in progress.
NeutralDefault(name) ==
    CASE name = S_tags -> PyList(<< >>)
      [] name = S_parameters -> PyDict(<< >>)
      [] name \in { S_name, S_task_name, S_id } -> None

\* The field of the context an attribute is read from.
ContextField(name) ==
    CASE name = S_id -> ctx.v.task_run.id
      [] name = S_name -> ctx.v.task_run.name
      [] name = S_tags -> ctx.v.task_run.tags
      [] name = S_parameters -> ctx.v.parameters
      [] name = S_task_name -> ctx.v.task.name

\* The real value of an attribute: the field, the identifier as a string.
RealValue(name) ==
    IF IsNone(ctx) THEN NeutralDefault(name)
    ELSE IF name = S_id THEN PyStr(ctx.v.task_run.id.v)
    ELSE ContextField(name)

\* C1: with no override and no active context, an access to a registered
\* attribute returns its neutral default: the empty list for tags, the empty
\* dict for parameters, None for name and task_name (and None for id).
C1_NeutralDefault ==
    \A n \in AttributeNames :
        (Accessed(n) /\ IsNone(ctx) /\ ~Overridden(n))
            => last.result = Return(NeutralDefault(n))

C1_Witness ==
    /\ Accessed(S_tags) /\ IsNone(ctx) /\ ~Overridden(S_tags)
    /\ last.result = Return(PyList(<< >>))

\* C2 as stated: with an active context and no override, an access to a
\* registered attribute, id included, returns the field of the context
\* unmodified.
C2_Unmodified ==
    \A n \in AttributeNames :
        (Accessed(n) /\ ~IsNone(ctx) /\ ~Overridden(n))
            => last.result = Return(ContextField(n))

\* C2 as amended: name, tags, parameters and task_name are returned as the
\* context holds them; id is returned as a string, the text of the identifier.
C2_ReadFromContext ==
    \A n \in AttributeNames :
        (Accessed(n) /\ ~IsNone(ctx) /\ ~Overridden(n))
            => IF n = S_id
               THEN last.result = Return(PyStr(ctx.v.task_run.id.v))
               ELSE last.result = Return(ContextField(n))

C2_Witness ==
    /\ Accessed(S_task_name) /\ ctx = CtxRun /\ ~Overridden(S_task_name)
    /\ last.result = Return(PyStr(S_double))

\* C3: an access to a name that is no registered attribute and has no
\* override raises AttributeError carrying the name and returns nothing,
\* with or without an active context.
C3_UnknownRaises ==
    \A n \in Names \ AttributeNames :
        (Accessed(n) /\ ~Overridden(n))
            => last.result = Raise("AttributeError", n)

C3_Witness ==
    /\ Accessed(S_not_a_real_attr) /\ ~IsNone(ctx) /\ ~Overridden(S_not_a_real_attr)
    /\ last.result.kind = "raise"

\* C4: an access to a name that is no registered attribute and has an
\* override returns the override string as it is, the empty string included,
\* with or without an active context.
C4_UnknownOverride ==
    \A n \in Names \ AttributeNames :
        (Accessed(n) /\ Overridden(n))
            => last.result = Return(PyStr(Override(n)))

C4_Witness ==
    /\ Accessed(S_not_a_real_attr) /\ Overridden(S_not_a_real_attr)
    /\ Override(S_not_a_real_attr) = S_empty
    /\ last.result = Return(PyStr(S_empty))

\* C5: for a registered attribute whose real value is a str, None, a list or a
\* dict, a defined override wins: the access returns the override string as it
\* is, with or without an active context.
C5_OverrideWins ==
    \A n \in AttributeNames :
        (/\ Accessed(n)
         /\ Overridden(n)
         /\ RealValue(n).type \in { "str", "NoneType", "list", "dict" })
            => last.result = Return(PyStr(Override(n)))

C5_Witness ==
    /\ Accessed(S_parameters) /\ ctx = CtxRun
    /\ Overridden(S_parameters) /\ Override(S_parameters) = S_42
    /\ last.result = Return(PyStr(S_42))

\* C6: dir() returns the same list whatever the context, the overrides and
\* the accesses before it: the keys of FIELDS in ascending order, id, name,
\* parameters, tags, task_name.
C6_DirSorted ==
    last.op = "__dir__"
        => /\ last.result =
                  Return(PyList(<< S_id, S_name, S_parameters, S_tags, S_task_name >>))
           /\ Range(last.result.value.v) = DOMAIN FIELDS

C6_Witness ==
    /\ last.op = "__dir__" /\ ~IsNone(ctx) /\ environ /= << >>
    /\ last.result.value.v[2] = S_name

\* C7: with no active context an access to a registered attribute, id
\* included, never raises, whatever the overrides; with no override it
\* returns an empty string, an empty list, an empty dict or None.
C7_AbsentContextNoError ==
    \A n \in AttributeNames :
        (Accessed(n) /\ IsNone(ctx))
            => /\ last.result.kind = "return"
               /\ ~Overridden(n)
                    => \/ last.result.value = PyStr(<< >>)
                       \/ last.result.value = PyList(<< >>)
                       \/ last.result.value = PyDict(<< >>)
                       \/ last.result.value = None

C7_Witness ==
    /\ Accessed(S_id) /\ IsNone(ctx) /\ ~Overridden(S_id)
    /\ last.result = Return(None)

\* C8 as stated: when the real value of a registered attribute is a bool,
\* every defined override gives True.
C8_AlwaysTrue ==
    \A n \in AttributeNames :
        (Accessed(n) /\ Overridden(n) /\ RealValue(n).type = "bool")
            => last.result = Return(PyBool(TRUE))

\* C8 as amended: when the real value of a registered attribute is a bool, a
\* defined override gives the truth value of the override string: True for
\* every string that is not empty, "false" included, and False for the empty
\* string.
C8_Truthiness ==
    \A n \in AttributeNames :
        (Accessed(n) /\ Overridden(n) /\ RealValue(n).type = "bool")
            => last.result = Return(PyBool(Override(n) /= << >>))

C8_Witness ==
    /\ Accessed(S_name) /\ ctx = CtxBoolInt
    /\ Overridden(S_name) /\ Override(S_name) = S_false
    /\ last.result = Return(PyBool(TRUE))

C10_CaseSensitive ==
    \A n \in Names \ AttributeNames : \A r \in AttributeNames :
        (upper(n) = upper(r) /\ Accessed(n))
            => IF Overridden(r)
               THEN last.result = Return(PyStr(Override(r)))
               ELSE last.result = Raise("AttributeError", n)

C10_Witness ==
    /\ Accessed(S_NAME) /\ ctx = CtxRun /\ ~Overridden(S_name)
    /\ last.result = Raise("AttributeError", S_NAME)

====
